---- MODULE Spec2Model ----
(***************************************************************************)
(* Model of the entity pass of emerge's C++ parser                         *)
(* (CPPParser.generate_entity_results_from_analysis, cppparser.py).        *)
(*                                                                         *)
(* A file is its list of tokens after comment filtering and punctuation    *)
(* padding.  The pass visits the tokens in order; on `template`, `class`,  *)
(* `struct` and `namespace` it runs a pyparsing grammar on the read-ahead  *)
(* (the token and everything after it), on `}` it pops a scope stack.      *)
(* pyparsing skips white space between grammar elements, so a grammar is   *)
(* modelled on the token list the read-ahead string is joined from.        *)
(***************************************************************************)
EXTENDS Integers, Sequences, FiniteSets, TLC

VARIABLES
    tokens,                   \* filtered_tokens of the file under analysis
    idx,                      \* index (1-based) of the next token the loop visits
    current_namespace,        \* namespace stack (line 139)
    class_scope_stack,        \* enclosing class names (line 141)
    current_template_params,  \* pending template parameters (line 140)
    scanned_entities,         \* result.scanned_entities
    hits,                     \* Statistics.Key.PARSING_HITS
    misses,                   \* Statistics.Key.PARSING_MISSES
    pending_results,          \* file results the loop at line 119 has yet to reach
    import_tokens,            \* filtered_list_no_comments of the import pass
    import_idx,               \* index of the next token the import loop visits
    scanned_import_dependencies,  \* result.scanned_import_dependencies
    existing_paths,           \* paths for which os.path.exists holds (line 384)
    ignore_list               \* strings the ignore-list predicate holds for

\* The variables of the import pass and its environment.
importVars == <<import_tokens, import_idx, scanned_import_dependencies,
                existing_paths, ignore_list>>

\* The variables of the entity pass over one file.
entityVars == <<tokens, idx, current_namespace, class_scope_stack,
                current_template_params, scanned_entities>>

vars == <<tokens, idx, current_namespace, class_scope_stack,
          current_template_params, scanned_entities, hits, misses,
          pending_results, import_tokens, import_idx,
          scanned_import_dependencies, existing_paths, ignore_list>>

(***************************************************************************)
(* Bounds of the explored inputs.                                          *)
(***************************************************************************)
MaxFrags == 3      \* declarations/fragments in a mixed file
MaxBlocks == 3     \* namespace/class blocks in a well-nested file

(***************************************************************************)
(* CPPParsingKeyword values used by the entity pass.                       *)
(***************************************************************************)
OPEN_SCOPE == "{"
CLOSE_SCOPE == "}"
CLASS == "class"
STRUCT == "struct"
NAMESPACE == "namespace"
VIRTUAL == "virtual"
TEMPLATE == "template"
SEMICOLON == ";"
TYPENAME == "typename"
OVERRIDE == "override"

\* current_template_params = None (line 140, 167, 228).  None and an empty
\* list are both falsy at line 226; a successful header match always
\* captures at least one parameter, so the empty sequence stands for None.
None == <<>>

\* Tokens that pp.Word(alphas + '_', alphanums + '_') cannot start in: the
\* padded punctuation of _token_mappings, `=` and the digit token.
NonWords == {"{", "}", ";", ":", "(", ")", ",", "<", ">", "=", "0"}

\* pp.Word(pp.alphas + '_', pp.alphanums + '_') on a whole token: every
\* identifier-shaped token matches, C++ keywords included.
IsWord(t) == t \notin NonWords

(***************************************************************************)
(* Read-ahead scanner (ParsingMixin, abstractparser.py): for position i    *)
(* the loop receives (i, token[i], token[i+1..n]).                         *)
(***************************************************************************)
Following(toks, i) == SubSeq(toks, i + 1, Len(toks))

\* create_read_ahead_string(token, following): the token and the following
\* tokens joined by blanks; kept as the list the string is joined from.
ReadAhead(toks, i) == SubSeq(toks, i, Len(toks))

\* ra[p], or the end-of-input marker past the end of the read-ahead.
EndOfInput == "<eof>"
At(ra, p) == IF p >= 1 /\ p <= Len(ra) THEN ra[p] ELSE EndOfInput
HasWord(ra, p) == p >= 1 /\ p <= Len(ra) /\ IsWord(ra[p])

(***************************************************************************)
(* Template header grammar (lines 148-158):                                *)
(*   Keyword(template) '<' delimitedList(Group(Optional(Keyword(typename)  *)
(*   | Keyword(class)) + Word)) '>'                                        *)
(* pyparsing does not backtrack into Optional: once `typename`/`class` is  *)
(* taken, an identifier must follow.  Each item yields param[-1].          *)
(***************************************************************************)
\* One Group(...) item at position p: [ok, val, next].
TemplateParamItem(ra, p) ==
    IF At(ra, p) \in {TYPENAME, CLASS}
    THEN IF HasWord(ra, p + 1)
         THEN [ok |-> TRUE, val |-> <<ra[p + 1]>>, next |-> p + 2]
         ELSE [ok |-> FALSE, val |-> <<>>, next |-> p]
    ELSE IF HasWord(ra, p)
         THEN [ok |-> TRUE, val |-> <<ra[p]>>, next |-> p + 1]
         ELSE [ok |-> FALSE, val |-> <<>>, next |-> p]

\* ZeroOrMore(',' + item) of delimitedList, from position p.
RECURSIVE TemplateParamTail(_, _, _)
TemplateParamTail(ra, p, acc) ==
    IF At(ra, p) = ","
    THEN LET it == TemplateParamItem(ra, p + 1)
         IN  IF it.ok THEN TemplateParamTail(ra, it.next, acc \o it.val)
             ELSE [val |-> acc, next |-> p]
    ELSE [val |-> acc, next |-> p]

\* template_pattern.parseString(read_ahead): [ok, params].
TemplateMatch(ra) ==
    IF At(ra, 1) = TEMPLATE /\ At(ra, 2) = "<"
    THEN LET first == TemplateParamItem(ra, 3)
         IN  IF first.ok
             THEN LET rest == TemplateParamTail(ra, first.next, first.val)
                  IN  IF At(ra, rest.next) = ">"
                      THEN [ok |-> TRUE, params |-> rest.val]
                      ELSE [ok |-> FALSE, params |-> <<>>]
             ELSE [ok |-> FALSE, params |-> <<>>]
    ELSE [ok |-> FALSE, params |-> <<>>]

(***************************************************************************)
(* Class/struct grammar (lines 174-195):                                   *)
(*   Keyword(token) identifier('name')                                     *)
(*   Optional('<' delimitedList(Word | 'typename' identifier) '>')         *)
(*   Optional(':' delimitedList(Optional(oneOf(access)) + Word)('bases'))  *)
(***************************************************************************)
\* ZeroOrMore(',' + Word) of the inline template-argument list.  Word is
\* the first alternative and matches `typename` too, so the second
\* alternative never decides a match.
RECURSIVE InlineArgTail(_, _, _)
InlineArgTail(ra, p, acc) ==
    IF At(ra, p) = "," /\ HasWord(ra, p + 1)
    THEN InlineArgTail(ra, p + 2, Append(acc, ra[p + 1]))
    ELSE [val |-> acc, next |-> p]

\* The Optional inline list at position p: on failure nothing is consumed.
InlineTemplateArgs(ra, p) ==
    IF At(ra, p) = "<" /\ HasWord(ra, p + 1)
    THEN LET rest == InlineArgTail(ra, p + 2, <<ra[p + 1]>>)
         IN  IF At(ra, rest.next) = ">"
             THEN [val |-> rest.val, next |-> rest.next + 1]
             ELSE [val |-> <<>>, next |-> p]
    ELSE [val |-> <<>>, next |-> p]

AccessSpecifiers == {"public", "private", "protected"}

\* Optional(oneOf('public private protected')) + Word at position p.  The
\* access specifier is not suppressed: it stays in the matched tokens.
BaseItem(ra, p) ==
    IF At(ra, p) \in AccessSpecifiers
    THEN IF HasWord(ra, p + 1)
         THEN [ok |-> TRUE, val |-> <<ra[p], ra[p + 1]>>, next |-> p + 2]
         ELSE [ok |-> FALSE, val |-> <<>>, next |-> p]
    ELSE IF HasWord(ra, p)
         THEN [ok |-> TRUE, val |-> <<ra[p]>>, next |-> p + 1]
         ELSE [ok |-> FALSE, val |-> <<>>, next |-> p]

RECURSIVE BaseTail(_, _, _)
BaseTail(ra, p, acc) ==
    IF At(ra, p) = ","
    THEN LET it == BaseItem(ra, p + 1)
         IN  IF it.ok THEN BaseTail(ra, it.next, acc \o it.val)
             ELSE [val |-> acc, next |-> p]
    ELSE [val |-> acc, next |-> p]

\* The Optional base list at position p.
BaseList(ra, p) ==
    IF At(ra, p) = ":"
    THEN LET first == BaseItem(ra, p + 1)
         IN  IF first.ok THEN BaseTail(ra, first.next, first.val).val
             ELSE <<>>
    ELSE <<>>

\* class_pattern.parseString(read_ahead): [ok, name, template_params, bases].
ClassMatch(ra) ==
    IF At(ra, 1) \in {CLASS, STRUCT} /\ HasWord(ra, 2)
    THEN LET targs == InlineTemplateArgs(ra, 3)
         IN  [ok |-> TRUE, name |-> ra[2], template_params |-> targs.val,
              bases |-> BaseList(ra, targs.next)]
    ELSE [ok |-> FALSE, name |-> "", template_params |-> <<>>, bases |-> <<>>]

(***************************************************************************)
(* Namespace grammar (lines 270-273): Keyword(namespace) Word('name').     *)
(***************************************************************************)
NamespaceMatch(ra) ==
    IF At(ra, 1) = NAMESPACE /\ HasWord(ra, 2)
    THEN [ok |-> TRUE, name |-> ra[2]]
    ELSE [ok |-> FALSE, name |-> ""]

(***************************************************************************)
(* Lines 217-223: walk `following` to the first `{` or `;`; only `{`       *)
(* appends the class name to class_scope_stack.                            *)
(***************************************************************************)
\* Variant: the `;` of a forward declaration does not end the walk.
RECURSIVE OpensScopeIgnoringSemicolon(_, _)
OpensScopeIgnoringSemicolon(following, p) ==
    IF p > Len(following) THEN FALSE
    ELSE IF following[p] = OPEN_SCOPE THEN TRUE
    ELSE OpensScopeIgnoringSemicolon(following, p + 1)

RECURSIVE OpensScope(_, _)
OpensScope(following, p) ==
    IF p > Len(following) THEN FALSE
    ELSE IF following[p] = OPEN_SCOPE THEN TRUE
    ELSE IF following[p] = SEMICOLON THEN FALSE
    ELSE OpensScope(following, p + 1)

(***************************************************************************)
(* Lines 237-247: virtual_method_pattern.searchString over the read-ahead  *)
(* built from `following` (everything after the class keyword):            *)
(*   Keyword(virtual) ~Keyword(override) SkipTo(oneOf([';', '= 0']))       *)
(* SkipTo stops in front of its target and does not include it; the search *)
(* resumes where the match ended.  A match is the list of skipped tokens.  *)
(***************************************************************************)
\* Variant: only the pure-virtual marker ends a virtual declaration.
IsSkipTargetPureVirtualOnly(body, q) ==
    At(body, q) = "=" /\ At(body, q + 1) = "0"

IsSkipTarget(body, q) ==
    \/ At(body, q) = SEMICOLON
    \/ At(body, q) = "=" /\ At(body, q + 1) = "0"

\* Position of the first SkipTo target at or after q, 0 if there is none.
RECURSIVE SkipTo(_, _)
SkipTo(body, q) ==
    IF q > Len(body) THEN 0
    ELSE IF IsSkipTarget(body, q) THEN q
    ELSE SkipTo(body, q + 1)

RECURSIVE VirtualMethods(_, _)
VirtualMethods(body, p) ==
    IF p > Len(body) THEN <<>>
    ELSE IF body[p] = VIRTUAL /\ At(body, p + 1) # OVERRIDE
              /\ SkipTo(body, p + 1) # 0
         THEN LET q == SkipTo(body, p + 1)
              IN  <<SubSeq(body, p + 1, q - 1)>> \o VirtualMethods(body, q)
         ELSE VirtualMethods(body, p + 1)

\* Line 250: PURE_VIRTUAL.value ("= 0") in str(method).
ContainsPureVirtual(method) ==
    \E j \in 1..(Len(method) - 1) : method[j] = "=" /\ method[j + 1] = "0"

(***************************************************************************)
(* create_unique_entity_name (lines 291-331).                              *)
(***************************************************************************)
\* sep.join(parts)
RECURSIVE Join(_, _)
Join(parts, sep) ==
    IF Len(parts) = 0 THEN ""
    ELSE IF Len(parts) = 1 THEN parts[1]
    ELSE parts[1] \o sep \o Join(Tail(parts), sep)

\* f"<{','.join(params)}>" (lines 317, 331).  A parameter is one token and
\* `:` is always a token of its own, so no parameter contains "::" and
\* param.split('::')[-1] is the parameter.
TemplateStr(params) == "<" \o Join(params, ",") \o ">"

\* Variant: the template suffix replaces the name parts instead of extending
\* the last one, which loses the namespace of a templated entity.
UniqueNameTemplateDropsNamespace(namespace, entity_name, template_parameters) ==
    IF template_parameters # <<>>
    THEN entity_name \o TemplateStr(template_parameters)
    ELSE IF namespace # "" THEN Join(<<namespace, entity_name>>, "::")
    ELSE entity_name

UniqueName(namespace, entity_name, template_parameters) ==
    LET last == IF template_parameters # <<>>
                THEN entity_name \o TemplateStr(template_parameters)
                ELSE entity_name
        name_parts == IF namespace # "" THEN <<namespace, last>> ELSE <<last>>
    IN  Join(name_parts, "::")

DisplayName(entity_name, template_parameters) ==
    IF template_parameters # <<>>
    THEN entity_name \o TemplateStr(template_parameters)
    ELSE entity_name

(***************************************************************************)
(* The entity built by a successful class/struct match (lines 200-260).    *)
(* token_index is bookkeeping of the model: the position of the keyword.   *)
(***************************************************************************)
BuildEntity(toks, i, ns_stack, class_stack, pending) ==
    LET following == Following(toks, i)
        parsed == ClassMatch(ReadAhead(toks, i))
        full_namespace == ns_stack \o class_stack
        namespace == IF full_namespace # <<>> THEN Join(full_namespace, "::")
                     ELSE ""
        template_parameters == IF pending # None THEN pending
                               ELSE parsed.template_params
        virtual_methods == VirtualMethods(following, 1)
        pure == \E m \in 1..Len(virtual_methods) :
                    ContainsPureVirtual(virtual_methods[m])
    IN  [entity_name |-> parsed.name,
         entity_type |-> toks[i],
         namespace |-> namespace,
         template_parameters |-> template_parameters,
         base_types |-> parsed.bases,
         is_abstract |-> pure,
         has_virtual_methods |-> pure \/ virtual_methods # <<>>,
         unique_name |-> UniqueName(namespace, parsed.name, template_parameters),
         display_name |-> DisplayName(parsed.name, template_parameters),
         token_index |-> i]

(***************************************************************************)
(* Inputs.  A mixed file is a sequence of at most MaxFrags fragments of    *)
(* the library below; a well-nested file is a forest of at most MaxBlocks  *)
(* named namespace blocks and class/struct definitions, namespaces only at *)
(* namespace scope.  Tokens are written as the tokenizer leaves them.      *)
(***************************************************************************)
Fragments ==
    << <<"namespace", "N", "{">>,
       <<"class", "C", "{">>,
       <<"struct", "D", ";">>,
       <<"class", ";">>,
       <<"}", ";">>,
       <<"template", "<", "typename", "T", ">">>,
       <<"template", "<", "class", "U", ">">>,
       <<"template", "<", "typename", "T", ",", "V", ">">>,
       <<"template", "<", ">">>,
       <<"template", "<", "int", "N", ">">>,
       <<"virtual", "g", "(", ")", "=", "0", ";">>,
       <<"virtual", "g", "override", ";">>,
       <<"void", "f", "(", ")", ";">>,
       <<"namespace", "{">>,
       <<"struct", "E", ":", "public", "B", "{">>,
       <<"using", "namespace", "std", ";">>,
       <<"void", "f", "(", ")", "{", "}">> >>

RECURSIVE Flatten(_)
Flatten(choice) ==
    IF Len(choice) = 0 THEN <<>>
    ELSE Fragments[Head(choice)] \o Flatten(Tail(choice))

MixedFiles ==
    { Flatten(choice) :
        choice \in UNION { [1..n -> 1..Len(Fragments)] : n \in 0..MaxFrags } }

ClassHeads == { <<"class", "C">>, <<"struct", "D">> }
NamespaceHeads == { <<"namespace", "N">>, <<"namespace", "M">> }

\* Forests of exactly n class/struct definitions, nested or in sequence.
RECURSIVE ClassForest(_)
ClassForest(n) ==
    IF n = 0 THEN { <<>> }
    ELSE UNION { { h \o <<"{">> \o body \o <<"}", ";">> \o rest :
                     h \in ClassHeads, body \in ClassForest(k - 1),
                     rest \in ClassForest(n - k) } : k \in 1..n }

\* Forests of exactly n blocks at namespace scope.
RECURSIVE NamespaceForest(_)
NamespaceForest(n) ==
    IF n = 0 THEN { <<>> }
    ELSE UNION { { h \o <<"{">> \o body \o <<"}">> \o rest :
                     h \in NamespaceHeads, body \in NamespaceForest(k - 1),
                     rest \in NamespaceForest(n - k) }
                 \cup
                 { h \o <<"{">> \o body \o <<"}", ";">> \o rest :
                     h \in ClassHeads, body \in ClassForest(k - 1),
                     rest \in NamespaceForest(n - k) } : k \in 1..n }

NestedFiles == UNION { NamespaceForest(n) : n \in 0..MaxBlocks }

Files == MixedFiles \cup NestedFiles

(***************************************************************************)
(* The pass over one file (lines 139-289).  The loop-local state of the    *)
(* pass is kept in a record so that a handler is a function of the tokens, *)
(* the position and the state, and a whole pass can be replayed.           *)
(***************************************************************************)
\* Lines 139-141, and the empty entity list and counters of a fresh run.
StartState ==
    [current_namespace |-> <<>>,
     class_scope_stack |-> <<>>,
     current_template_params |-> None,
     scanned_entities |-> <<>>,
     hits |-> 0,
     misses |-> 0]

\* Variant: a failed header match leaves the pending parameters in place.
OnTemplateMissKeepsPending(toks, i, st) ==
    LET parsed == TemplateMatch(ReadAhead(toks, i))
    IN  IF parsed.ok
        THEN [st EXCEPT !.current_template_params = parsed.params,
                        !.hits = @ + 1]
        ELSE [st EXCEPT !.misses = @ + 1]

\* Lines 144-168: a `template` token at position i.
OnTemplate(toks, i, st) ==
    LET parsed == TemplateMatch(ReadAhead(toks, i))
    IN  IF parsed.ok
        THEN [st EXCEPT !.current_template_params = parsed.params,
                        !.hits = @ + 1]
        ELSE [st EXCEPT !.misses = @ + 1,
                        !.current_template_params = None]

\* Variant: a failed class/struct match clears the pending parameters, as
\* the failed template match does.
OnClassMissClearsPending(toks, i, st) ==
    LET parsed == ClassMatch(ReadAhead(toks, i))
    IN  IF parsed.ok
        THEN [st EXCEPT
                !.class_scope_stack =
                    IF OpensScope(Following(toks, i), 1)
                    THEN Append(@, parsed.name) ELSE @,
                !.current_template_params = IF @ # None THEN None ELSE @,
                !.scanned_entities =
                    Append(@, BuildEntity(toks, i, st.current_namespace,
                                          st.class_scope_stack,
                                          st.current_template_params)),
                !.hits = @ + 1]
        ELSE [st EXCEPT !.misses = @ + 1, !.current_template_params = None]

\* Variant: the pending parameters are not reset after use (line 228).
OnClassKeepsPending(toks, i, st) ==
    LET parsed == ClassMatch(ReadAhead(toks, i))
    IN  IF parsed.ok
        THEN [st EXCEPT
                !.class_scope_stack =
                    IF OpensScope(Following(toks, i), 1)
                    THEN Append(@, parsed.name) ELSE @,
                !.scanned_entities =
                    Append(@, BuildEntity(toks, i, st.current_namespace,
                                          st.class_scope_stack,
                                          st.current_template_params)),
                !.hits = @ + 1]
        ELSE [st EXCEPT !.misses = @ + 1]

\* Lines 170-266: a `class` or `struct` token at position i.
OnClass(toks, i, st) ==
    LET parsed == ClassMatch(ReadAhead(toks, i))
    IN  IF parsed.ok
        THEN [st EXCEPT
                !.class_scope_stack =
                    IF OpensScope(Following(toks, i), 1)
                    THEN Append(@, parsed.name) ELSE @,
                !.current_template_params = IF @ # None THEN None ELSE @,
                !.scanned_entities =
                    Append(@, BuildEntity(toks, i, st.current_namespace,
                                          st.class_scope_stack,
                                          st.current_template_params)),
                !.hits = @ + 1]
        ELSE [st EXCEPT !.misses = @ + 1]

\* Variant: a successful namespace match is not counted as a hit.
OnNamespaceHitUncounted(toks, i, st) ==
    LET parsed == NamespaceMatch(ReadAhead(toks, i))
    IN  IF parsed.ok
        THEN [st EXCEPT !.current_namespace = Append(@, parsed.name)]
        ELSE [st EXCEPT !.misses = @ + 1]

\* Variant: a failed namespace match starts the namespace stack afresh.
OnNamespaceMissClearsStack(toks, i, st) ==
    LET parsed == NamespaceMatch(ReadAhead(toks, i))
    IN  IF parsed.ok
        THEN [st EXCEPT !.current_namespace = Append(@, parsed.name),
                        !.hits = @ + 1]
        ELSE [st EXCEPT !.current_namespace = <<>>,
                        !.misses = @ + 1]

\* Lines 268-282: a `namespace` token at position i.
OnNamespace(toks, i, st) ==
    LET parsed == NamespaceMatch(ReadAhead(toks, i))
    IN  IF parsed.ok
        THEN [st EXCEPT !.current_namespace = Append(@, parsed.name),
                        !.hits = @ + 1]
        ELSE [st EXCEPT !.misses = @ + 1]

\* list.pop(): the list without its last element.
Pop(stack) == SubSeq(stack, 1, Len(stack) - 1)

\* Variant: the namespace stack is tried before the class stack.
OnCloseScopeNamespaceFirst(st) ==
    IF st.current_namespace # <<>>
    THEN [st EXCEPT !.current_namespace = Pop(@)]
    ELSE IF st.class_scope_stack # <<>>
    THEN [st EXCEPT !.class_scope_stack = Pop(@)]
    ELSE st

\* Variant: `if` in place of `elif`, both stacks are popped by one `}`.
OnCloseScopeBothStacks(st) ==
    [st EXCEPT !.class_scope_stack = IF @ # <<>> THEN Pop(@) ELSE @,
               !.current_namespace = IF @ # <<>> THEN Pop(@) ELSE @]

\* Lines 284-289: a `}` token.
OnCloseScope(st) ==
    IF st.class_scope_stack # <<>>
    THEN [st EXCEPT !.class_scope_stack = Pop(@)]
    ELSE IF st.current_namespace # <<>>
    THEN [st EXCEPT !.current_namespace = Pop(@)]
    ELSE st

\* One iteration of the loop at line 143: the if/elif chain.
Visit(toks, i, st) ==
    IF toks[i] = TEMPLATE THEN OnTemplate(toks, i, st)
    ELSE IF toks[i] \in {CLASS, STRUCT} THEN OnClass(toks, i, st)
    ELSE IF toks[i] = NAMESPACE THEN OnNamespace(toks, i, st)
    ELSE IF toks[i] = CLOSE_SCOPE THEN OnCloseScope(st)
    ELSE st

\* The iterations i, i+1, ... of the loop, from state st.
RECURSIVE RunPass(_, _, _)
RunPass(toks, i, st) ==
    IF i > Len(toks) THEN st ELSE RunPass(toks, i + 1, Visit(toks, i, st))

Init ==
    /\ tokens \in Files
    /\ idx = 1
    /\ current_namespace = StartState.current_namespace
    /\ class_scope_stack = StartState.class_scope_stack
    /\ current_template_params = StartState.current_template_params
    /\ scanned_entities = StartState.scanned_entities
    /\ hits = StartState.hits
    /\ misses = StartState.misses
    /\ pending_results = <<>>
    /\ import_tokens = <<>>
    /\ import_idx = 1
    /\ scanned_import_dependencies = <<>>
    /\ existing_paths = {}
    /\ ignore_list = {}

Token == tokens[idx]
InPass == idx <= Len(tokens)

\* The loop-local state as the handlers take it.
Current ==
    [current_namespace |-> current_namespace,
     class_scope_stack |-> class_scope_stack,
     current_template_params |-> current_template_params,
     scanned_entities |-> scanned_entities,
     hits |-> hits,
     misses |-> misses]

\* The handler's result becomes the state and the loop moves on.
Update(st) ==
    /\ current_namespace' = st.current_namespace
    /\ class_scope_stack' = st.class_scope_stack
    /\ current_template_params' = st.current_template_params
    /\ scanned_entities' = st.scanned_entities
    /\ hits' = st.hits
    /\ misses' = st.misses
    /\ idx' = idx + 1
    /\ UNCHANGED <<tokens, pending_results, importVars>>

VisitTemplate ==
    /\ InPass /\ Token = TEMPLATE
    /\ Update(OnTemplate(tokens, idx, Current))

VisitClass ==
    /\ InPass /\ Token \in {CLASS, STRUCT}
    /\ Update(OnClass(tokens, idx, Current))

VisitNamespace ==
    /\ InPass /\ Token = NAMESPACE
    /\ Update(OnNamespace(tokens, idx, Current))

VisitCloseScope ==
    /\ InPass /\ Token = CLOSE_SCOPE
    /\ Update(OnCloseScope(Current))

\* Any other token: no branch of the if/elif chain is taken.
VisitOther ==
    /\ InPass
    /\ Token \notin {TEMPLATE, CLASS, STRUCT, NAMESPACE, CLOSE_SCOPE}
    /\ Update(Current)

Next ==
    \/ VisitTemplate
    \/ VisitClass
    \/ VisitNamespace
    \/ VisitCloseScope
    \/ VisitOther

Spec == Init /\ [][Next]_vars

(***************************************************************************)
(* The import pass (_add_imports_to_result, lines 333-379).  The include   *)
(* grammar works inside a token, so the tokens of this pass are spelled as *)
(* lists of characters; the `#include` keyword is kept as one symbol.      *)
(***************************************************************************)
MaxIncludes == 3   \* lines of a file of the import pass

INCLUDE == <<"#include">>

\* CoreParsingKeyword values used by the include grammar.
DOT == "."
SLASH == "/"
DOUBLE_QUOTE == "\""
UNDERSCORE == "_"
OPENING_ANGLE_BRACKET == "<"
CLOSING_ANGLE_BRACKET == ">"

\* pp.alphanums
Alphanums ==
    {"a", "b", "c", "d", "e", "f", "g", "h", "i", "j", "k", "l", "m",
     "n", "o", "p", "q", "r", "s", "t", "u", "v", "w", "x", "y", "z",
     "A", "B", "C", "D", "E", "F", "G", "H", "I", "J", "K", "L", "M",
     "N", "O", "P", "Q", "R", "S", "T", "U", "V", "W", "X", "Y", "Z",
     "0", "1", "2", "3", "4", "5", "6", "7", "8", "9"}

\* The characters of include_name (lines 350-351).
IncludeNameChars == Alphanums \cup {DOT, SLASH, DOUBLE_QUOTE, UNDERSCORE}

\* The tokens the ZeroOrMore(Suppress ...) of lines 354-356 consumes.
IncludeDelimiters ==
    { <<OPENING_ANGLE_BRACKET>>, <<CLOSING_ANGLE_BRACKET>>, <<DOUBLE_QUOTE>> }

\* pp.Word(chars) at the start of a token: the length of the longest prefix
\* made of chars.
RECURSIVE WordLength(_, _, _)
WordLength(tok, chars, n) ==
    IF n < Len(tok) /\ tok[n + 1] \in chars
    THEN WordLength(tok, chars, n + 1)
    ELSE n

\* The first position at or after p that holds no delimiter token.
RECURSIVE SkipDelimiters(_, _)
SkipDelimiters(ra, p) ==
    IF p <= Len(ra) /\ ra[p] \in IncludeDelimiters
    THEN SkipDelimiters(ra, p + 1)
    ELSE p

\* The characters of a match as the string pyparsing returns.
Text(chars) == Join(chars, "")

\* expression_to_match.parseString(read_ahead_string) (lines 353-360):
\* [ok, name], name being the import_entity_name result.
IncludeMatch(ra) ==
    LET p == SkipDelimiters(ra, 2)
        n == IF p <= Len(ra) THEN WordLength(ra[p], IncludeNameChars, 0) ELSE 0
    IN  IF Len(ra) >= 1 /\ ra[1] = INCLUDE /\ n > 0
        THEN [ok |-> TRUE, name |-> Text(SubSeq(ra[p], 1, n))]
        ELSE [ok |-> FALSE, name |-> ""]

\* The directory of the scanned file relative to the parent of the source
\* root, against which resolve_relative_dependency_path resolves.
RelativeDir == "x"

\* ParsingMixin.resolve_relative_dependency_path: the dependency as a path
\* below the parent of the source root.
ResolveRelative(dependency) == RelativeDir \o SLASH \o dependency

\* try_resolve_dependency (lines 381-386).
TryResolveDependency(dependency, existing) ==
    LET resolved_dependency == ResolveRelative(dependency)
    IN  IF resolved_dependency \in existing THEN resolved_dependency
        ELSE dependency

\* ParsingMixin._is_dependency_in_ignore_list.
IsDependencyInIgnoreList(dependency, ignored) == dependency \in ignored

\* Variant: the ignore list is tested on the dependency as written, before
\* it is resolved.
OnIncludeIgnoresRaw(toks, i, st, existing, ignored) ==
    LET parsing_result == IncludeMatch(ReadAhead(toks, i))
        resolved_dependency ==
            TryResolveDependency(parsing_result.name, existing)
    IN  IF ~parsing_result.ok THEN [st EXCEPT !.misses = @ + 1]
        ELSE IF IsDependencyInIgnoreList(parsing_result.name, ignored)
        THEN [st EXCEPT !.hits = @ + 1]
        ELSE [st EXCEPT !.hits = @ + 1,
                        !.scanned_import_dependencies =
                            Append(@, resolved_dependency)]

\* Lines 347-379: an `#include` token at position i.
OnInclude(toks, i, st, existing, ignored) ==
    LET parsing_result == IncludeMatch(ReadAhead(toks, i))
        resolved_dependency ==
            TryResolveDependency(parsing_result.name, existing)
    IN  IF ~parsing_result.ok THEN [st EXCEPT !.misses = @ + 1]
        ELSE IF IsDependencyInIgnoreList(resolved_dependency, ignored)
        THEN [st EXCEPT !.hits = @ + 1]
        ELSE [st EXCEPT !.hits = @ + 1,
                        !.scanned_import_dependencies =
                            Append(@, resolved_dependency)]

\* Files of the import pass: at most MaxIncludes of these lines.
HeaderAB == <<"a", "/", "b", ".", "h">>
HeaderC1 == <<"c", "_", "1", ".", "h">>
HeaderMyLib == <<"m", "y", "-", "l", "i", "b", ".", "h">>

ImportLines ==
    << <<INCLUDE, <<"<">>, HeaderAB, <<">">> >>,
       <<INCLUDE, <<"\"">>, HeaderAB, <<"\"">> >>,
       <<INCLUDE, <<"\"">>, HeaderC1, <<"\"">> >>,
       <<INCLUDE, HeaderC1>>,
       <<INCLUDE, <<"<">>, HeaderMyLib, <<">">> >>,
       <<INCLUDE, <<"<">>, <<">">> >>,
       <<INCLUDE, <<"(">>, <<"x">>, <<")">> >>,
       << <<"i", "n", "t">>, <<"v">>, <<";">> >> >>

RECURSIVE FlattenLines(_)
FlattenLines(choice) ==
    IF Len(choice) = 0 THEN <<>>
    ELSE ImportLines[Head(choice)] \o FlattenLines(Tail(choice))

ImportFiles ==
    { FlattenLines(choice) :
        choice \in UNION { [1..n -> 1..Len(ImportLines)] : n \in 0..MaxIncludes } }

\* What exists on disk and what the configuration ignores.
ExistingChoices == { {}, {"x/a/b.h"}, {"x/a/b.h", "x/c_1.h"} }
IgnoreChoices == { {}, {"x/a/b.h"}, {"a/b.h"}, {"c_1.h"} }

InitImports ==
    /\ import_tokens \in ImportFiles
    /\ import_idx = 1
    /\ scanned_import_dependencies = <<>>
    /\ existing_paths \in ExistingChoices
    /\ ignore_list \in IgnoreChoices
    /\ hits = 0
    /\ misses = 0
    /\ tokens = <<>>
    /\ idx = 1
    /\ current_namespace = <<>>
    /\ class_scope_stack = <<>>
    /\ current_template_params = None
    /\ scanned_entities = <<>>
    /\ pending_results = <<>>

ImportToken == import_tokens[import_idx]
InImportPass == import_idx <= Len(import_tokens)

CurrentImports ==
    [scanned_import_dependencies |-> scanned_import_dependencies,
     hits |-> hits,
     misses |-> misses]

UpdateImports(st) ==
    /\ scanned_import_dependencies' = st.scanned_import_dependencies
    /\ hits' = st.hits
    /\ misses' = st.misses
    /\ import_idx' = import_idx + 1
    /\ UNCHANGED <<import_tokens, existing_paths, ignore_list, entityVars,
                   pending_results>>

VisitInclude ==
    /\ InImportPass /\ ImportToken = INCLUDE
    /\ UpdateImports(OnInclude(import_tokens, import_idx, CurrentImports,
                               existing_paths, ignore_list))

\* Any other token: the `if` at line 347 is not taken.
VisitNoInclude ==
    /\ InImportPass /\ ImportToken # INCLUDE
    /\ UpdateImports(CurrentImports)

NextImports ==
    \/ VisitInclude
    \/ VisitNoInclude

SpecImports == InitImports /\ [][NextImports]_vars

(***************************************************************************)
(* The loop over the file results (lines 119-143): each header file gets a *)
(* pass of its own, one after the other; other files are skipped.          *)
(* pending_results holds the results the loop has not reached yet; a file  *)
(* name is kept as its stem and its extension.                             *)
(***************************************************************************)
MaxResults == 2   \* file results of one run

\* The suffixes of line 124.
HeaderExtensions == {".h", ".hpp", ".hxx"}

\* result.scanned_file_name.endswith(('.h', '.hpp', '.hxx'))
IsHeader(scanned_file_name) == scanned_file_name.ext \in HeaderExtensions

\* Files of a run: ended inside a namespace and a class, ended with a
\* template header pending, a forward declaration, a closed class, and a
\* stray closing brace.
RunFiles ==
    { <<"namespace", "N", "{", "class", "C", "{">>,
      <<"template", "<", "typename", "T", ">">>,
      <<"struct", "D", ";">>,
      <<"class", "C", "{", "}", ";">>,
      <<"}", ";">> }

RunResults ==
    [scanned_file_name : [stem : {"f"}, ext : HeaderExtensions \cup {".cpp"}],
     scanned_tokens : RunFiles]

InitRun ==
    /\ pending_results \in UNION { [1..n -> RunResults] : n \in 0..MaxResults }
    /\ tokens = <<>>
    /\ idx = 1
    /\ current_namespace = StartState.current_namespace
    /\ class_scope_stack = StartState.class_scope_stack
    /\ current_template_params = StartState.current_template_params
    /\ scanned_entities = StartState.scanned_entities
    /\ hits = StartState.hits
    /\ misses = StartState.misses
    /\ import_tokens = <<>>
    /\ import_idx = 1
    /\ scanned_import_dependencies = <<>>
    /\ existing_paths = {}
    /\ ignore_list = {}

\* The inner loop has run out of tokens and the outer loop has a next result.
AtNextResult == ~InPass /\ pending_results # <<>>

\* Lines 124-125: the result is no header file.
SkipResult ==
    /\ AtNextResult
    /\ ~IsHeader(Head(pending_results).scanned_file_name)
    /\ pending_results' = Tail(pending_results)
    /\ UNCHANGED <<tokens, idx, current_namespace, class_scope_stack,
                   current_template_params, scanned_entities, hits, misses,
                   importVars>>

\* Variant: the scope stacks and the pending parameters are set up once,
\* before the loop over the results.
StartResultKeepsScope ==
    /\ AtNextResult
    /\ IsHeader(Head(pending_results).scanned_file_name)
    /\ pending_results' = Tail(pending_results)
    /\ tokens' = Head(pending_results).scanned_tokens
    /\ idx' = 1
    /\ scanned_entities' = <<>>
    /\ UNCHANGED <<current_namespace, class_scope_stack,
                   current_template_params, hits, misses, importVars>>

\* Lines 127-143: the pass over a header file starts; scanned_entities is
\* the list of the new result, the counters are those of the analysis.
StartResult ==
    /\ AtNextResult
    /\ IsHeader(Head(pending_results).scanned_file_name)
    /\ pending_results' = Tail(pending_results)
    /\ tokens' = Head(pending_results).scanned_tokens
    /\ idx' = 1
    /\ current_namespace' = <<>>
    /\ current_template_params' = None
    /\ class_scope_stack' = <<>>
    /\ scanned_entities' = <<>>
    /\ UNCHANGED <<hits, misses, importVars>>

NextRun ==
    \/ SkipResult
    \/ StartResult
    \/ VisitTemplate
    \/ VisitClass
    \/ VisitNamespace
    \/ VisitCloseScope
    \/ VisitOther

SpecRun == InitRun /\ [][NextRun]_vars

(***************************************************************************)
(* Properties.                                                             *)
(***************************************************************************)
IsClassKeyword(t) == t \in {CLASS, STRUCT}
Done == idx > Len(tokens)
Positions(toks, t) == { p \in 1..Len(toks) : toks[p] = t }
LastEntity == scanned_entities[Len(scanned_entities)]

\* The token just visited is a class/struct keyword whose match succeeded.
ClassMatched == IsClassKeyword(Token) /\ hits' = hits + 1

\* Heads <<keyword, name>> of the blocks of a well-nested file that are
\* opened before position pos and not closed before it, outermost first.
RECURSIVE OpenBlocks(_, _, _, _)
OpenBlocks(toks, p, pos, stack) ==
    IF p >= pos THEN stack
    ELSE IF toks[p] = "{"
         THEN OpenBlocks(toks, p + 1, pos,
                         Append(stack, <<toks[p - 2], toks[p - 1]>>))
    ELSE IF toks[p] = "}"
         THEN OpenBlocks(toks, p + 1, pos, SubSeq(stack, 1, Len(stack) - 1))
    ELSE OpenBlocks(toks, p + 1, pos, stack)

NamesOfKind(stack, kinds) ==
    LET sel == SelectSeq(stack, LAMBDA h : h[1] \in kinds)
    IN  [k \in 1..Len(sel) |-> sel[k][2]]

\* Enclosing namespaces, then enclosing classes, then the entity's own name.
ExpectedUniqueName(toks, pos) ==
    LET open == OpenBlocks(toks, 1, pos, <<>>)
    IN  Join(NamesOfKind(open, {NAMESPACE}) \o NamesOfKind(open, {CLASS, STRUCT})
             \o <<toks[pos + 1]>>, "::")

Min(S) == CHOOSE x \in S : \A y \in S : x <= y

RECURSIVE SortedSeq(_)
SortedSeq(S) == IF S = {} THEN <<>> ELSE <<Min(S)>> \o SortedSeq(S \ {Min(S)})

\* The documented header form template<[typename|class] Ident, ...> at
\* position i, stated on its own: `<`, then up to the first `>` a non-empty
\* comma-separated list whose items are an identifier, optionally preceded
\* by `typename` or `class`.
HeaderEnd(toks, i) == Min({ g \in Positions(toks, ">") : g > i })

HeaderItemOK(item) ==
    \/ Len(item) = 1 /\ IsWord(item[1]) /\ item[1] \notin {TYPENAME, CLASS}
    \/ Len(item) = 2 /\ item[1] \in {TYPENAME, CLASS} /\ IsWord(item[2])

RecognizedHeader(toks, i) ==
    /\ toks[i] = TEMPLATE
    /\ At(toks, i + 1) = "<"
    /\ \E g \in Positions(toks, ">") : g > i
    /\ LET g == HeaderEnd(toks, i)
           delims == {i + 1, g} \cup { c \in Positions(toks, ",") : c > i /\ c < g }
       IN  \A d \in delims \ {g} :
              HeaderItemOK(SubSeq(toks, d + 1,
                                  Min({ n \in delims : n > d }) - 1))

\* The parameter identifiers of a recognized header, in order.
HeaderParams(toks, i) ==
    LET ps == SortedSeq({ p \in (i + 2)..(HeaderEnd(toks, i) - 1) :
                            toks[p] # "," /\ toks[p + 1] \in {",", ">"} })
    IN  [k \in 1..Len(ps) |-> toks[ps[k]]]

\* The class definition at position i has a body: a `{` comes before any `;`.
HasBody(toks, i) ==
    /\ \E o \in Positions(toks, "{") : o > i
    /\ \A q \in Positions(toks, ";") :
          q > i => \E o \in Positions(toks, "{") : o > i /\ o < q

BodyOpen(toks, i) == Min({ o \in Positions(toks, "{") : o > i })

\* The `}` matching the `{` at position o, or one past the end of the file.
BodyClose(toks, o) ==
    LET balanced(q) ==
            Cardinality({ p \in Positions(toks, "{") : p >= o /\ p <= q })
              = Cardinality({ p \in Positions(toks, "}") : p >= o /\ p <= q })
        closes == { q \in Positions(toks, "}") : q > o /\ balanced(q) }
    IN  IF closes = {} THEN Len(toks) + 1 ELSE Min(closes)

\* A member declaration `virtual ... = 0 ;` lies within positions a..b.
PureVirtualDeclIn(toks, a, b) ==
    \E p \in a..b : \E q \in (p + 1)..(b - 2) :
        /\ toks[p] = VIRTUAL
        /\ toks[q] = "=" /\ toks[q + 1] = "0" /\ toks[q + 2] = ";"
        /\ \A r \in p..q : toks[r] # ";"

\* A member declaration `virtual <something other than override> ... ;`
\* lies within positions a..b.
VirtualDeclIn(toks, a, b) ==
    \E p \in a..b : \E q \in (p + 1)..b :
        toks[p] = VIRTUAL /\ toks[p + 1] # OVERRIDE /\ toks[q] = ";"

HasPureVirtualMarker(toks) ==
    \E q \in 1..(Len(toks) - 1) : toks[q] = "=" /\ toks[q + 1] = "0"

BodyHas(toks, i, DeclIn(_, _, _)) ==
    /\ HasBody(toks, i)
    /\ BodyClose(toks, BodyOpen(toks, i)) <= Len(toks)
    /\ DeclIn(toks, BodyOpen(toks, i) + 1,
              BodyClose(toks, BodyOpen(toks, i)) - 1)

\* C1: in a file made only of properly nested named namespace blocks and
\* class/struct definitions with bodies (NestedFiles: namespace blocks stand
\* at namespace scope, class bodies hold classes), every class/struct keyword visited
\* has its entity, each entity's unique name is its enclosing namespaces,
\* then its enclosing classes, then its own name, joined by "::", and once
\* the last `}` has been visited both stacks are empty.
C1_NestedUniqueNames ==
    tokens \in NestedFiles =>
        /\ Len(scanned_entities) =
               Cardinality({ p \in 1..(idx - 1) : IsClassKeyword(tokens[p]) })
        /\ \A k \in 1..Len(scanned_entities) :
               scanned_entities[k].unique_name =
                   ExpectedUniqueName(tokens, scanned_entities[k].token_index)
        /\ (Positions(tokens, "}") # {}
               /\ \A p \in Positions(tokens, "}") : p < idx)
              => current_namespace = <<>> /\ class_scope_stack = <<>>

C1_Witness ==
    /\ tokens \in NestedFiles
    /\ Done
    /\ \E k \in 1..Len(scanned_entities) :
          scanned_entities[k].unique_name = "N::C::D"
    /\ current_namespace = <<>>
    /\ class_scope_stack = <<>>

\* C2: a `}` token removes exactly the top of the class stack and leaves the
\* namespace stack alone when the class stack is non-empty; otherwise it
\* removes exactly the top of the namespace stack when that is non-empty;
\* otherwise both stacks stay empty; in each case the pass goes on to the
\* next token.
C2_CloseScopePopsInnermost ==
    [][(InPass /\ Token = CLOSE_SCOPE) =>
          /\ idx' = idx + 1
          /\ IF class_scope_stack # <<>>
             THEN /\ class_scope_stack =
                       Append(class_scope_stack',
                              class_scope_stack[Len(class_scope_stack)])
                  /\ current_namespace' = current_namespace
             ELSE IF current_namespace # <<>>
             THEN /\ current_namespace =
                       Append(current_namespace',
                              current_namespace[Len(current_namespace)])
                  /\ class_scope_stack' = <<>>
             ELSE current_namespace' = <<>> /\ class_scope_stack' = <<>>]_vars

\* A `}` beyond the opened scopes has been visited and was a no-op.
C2_Witness ==
    /\ idx > 1 /\ tokens[idx - 1] = CLOSE_SCOPE
    /\ Cardinality({ p \in Positions(tokens, "}") : p < idx })
          > Cardinality({ p \in Positions(tokens, "{") : p < idx })
    /\ hits > 0
    /\ current_namespace = <<>>
    /\ class_scope_stack = <<>>

\* C3: a successful class/struct match after which a `;` comes before any
\* `{` leaves the class stack and the namespace stack as they were; one
\* after which a `{` comes first appends exactly the entity's own name to
\* the class stack.
C3_ForwardDeclarationNoPush ==
    [][(InPass /\ ClassMatched) =>
          LET semis == { q \in Positions(tokens, ";") : q > idx }
              opens == { q \in Positions(tokens, "{") : q > idx }
              semiFirst == semis # {} /\ \A o \in opens : \E q \in semis : q < o
              openFirst == opens # {} /\ \A q \in semis : \E o \in opens : o < q
          IN  /\ semiFirst => /\ class_scope_stack' = class_scope_stack
                              /\ current_namespace' = current_namespace
              /\ openFirst => /\ class_scope_stack' =
                                   Append(class_scope_stack, tokens[idx + 1])
                              /\ current_namespace' = current_namespace]_vars

\* `class C { struct D ;`: C was pushed, the forward declaration D was not.
C3_Witness ==
    /\ idx > 1 /\ IsClassKeyword(tokens[idx - 1])
    /\ idx < Len(tokens) /\ tokens[idx + 1] = ";"
    /\ scanned_entities # <<>>
    /\ LastEntity.token_index = idx - 1
    /\ LastEntity.namespace = "C"
    /\ class_scope_stack = <<"C">>

\* C4: a file that is a recognized template header directly followed by
\* `class Name { } ;` yields exactly one entity, whose unique name and
\* display name are Name<P1,...,Pn> with the header's parameters in order,
\* and leaves the class stack empty.
C4_TemplatedClassEntity ==
    (/\ Done
     /\ Len(tokens) >= 1 /\ tokens[1] = TEMPLATE
     /\ RecognizedHeader(tokens, 1)
     /\ LET g == HeaderEnd(tokens, 1)
        IN  /\ Len(tokens) = g + 5
            /\ IsClassKeyword(tokens[g + 1]) /\ IsWord(tokens[g + 2])
            /\ SubSeq(tokens, g + 3, g + 5) = <<"{", "}", ";">>)
    => LET name == tokens[HeaderEnd(tokens, 1) + 2]
           full == name \o "<" \o Join(HeaderParams(tokens, 1), ",") \o ">"
       IN  /\ Len(scanned_entities) = 1
           /\ scanned_entities[1].unique_name = full
           /\ scanned_entities[1].display_name = full
           /\ class_scope_stack = <<>>

\* C5: an entity whose class body contains a member declaration
\* `virtual ... = 0 ;` has is_abstract and has_virtual_methods set.
C5_PureVirtualIsAbstract ==
    \A k \in 1..Len(scanned_entities) :
        BodyHas(tokens, scanned_entities[k].token_index, PureVirtualDeclIn)
        => /\ scanned_entities[k].is_abstract
           /\ scanned_entities[k].has_virtual_methods

\* C6: in a file without any `= 0` marker, an entity whose class body
\* contains a `virtual` member declaration ended by `;` (the token after
\* `virtual` being part of the declaration, not `override`) has
\* has_virtual_methods set and is_abstract clear.
C6_VirtualNotAbstract ==
    \A k \in 1..Len(scanned_entities) :
        (/\ ~HasPureVirtualMarker(tokens)
         /\ BodyHas(tokens, scanned_entities[k].token_index, VirtualDeclIn))
        => /\ scanned_entities[k].has_virtual_methods
           /\ ~scanned_entities[k].is_abstract

\* `class C { virtual g override ; } ;` has been scanned.
C6_Witness ==
    /\ Done
    /\ ~HasPureVirtualMarker(tokens)
    /\ Positions(tokens, OVERRIDE) # {}
    /\ \E k \in 1..Len(scanned_entities) :
          /\ BodyHas(tokens, scanned_entities[k].token_index, VirtualDeclIn)
          /\ scanned_entities[k].has_virtual_methods

\* What C7 compares of an entity: name, namespace path, template parameters.
Declared(e) == <<e.entity_name, e.namespace, e.template_parameters>>

\* The entities of a pass over toks declared after position p, in order.
DeclaredAfter(toks, p) ==
    LET ents == SelectSeq(RunPass(toks, 1, StartState).scanned_entities,
                          LAMBDA e : e.token_index > p)
    IN  [k \in 1..Len(ents) |-> Declared(ents[k])]

Without(toks, p) == SubSeq(toks, 1, p - 1) \o SubSeq(toks, p + 1, Len(toks))

\* A class/struct keyword at position p that no identifier follows.
Unnamed(toks, p) == IsClassKeyword(toks[p]) /\ ~HasWord(toks, p + 1)

HasHeaderParams(e) ==
    e.template_parameters # <<>> /\ At(tokens, e.token_index + 2) # "<"

\* C8: a successful class/struct match leaves no pending template
\* parameters behind, and of two entities that both carry header parameters
\* the later one has a `template` token of its own between them.
C8_PendingParamsUsedOnce ==
    /\ [][(InPass /\ ClassMatched) => current_template_params' = None]_vars
    /\ [](\A j \in 1..Len(scanned_entities) : \A k \in 1..Len(scanned_entities) :
             (j < k /\ HasHeaderParams(scanned_entities[j])
                    /\ HasHeaderParams(scanned_entities[k]))
             => \E t \in Positions(tokens, TEMPLATE) :
                    /\ t > scanned_entities[j].token_index
                    /\ t < scanned_entities[k].token_index)

\* One header, two class matches: only the first carries the parameters.
C8_Witness ==
    /\ Cardinality(Positions(tokens, TEMPLATE)) = 1
    /\ Len(scanned_entities) = 2
    /\ scanned_entities[1].template_parameters = <<"T">>
    /\ scanned_entities[2].template_parameters = <<>>
    /\ current_template_params = None

\* C9: an entity that is separated from the closest recognized header before
\* it by unrelated tokens (at least one token, none of them `template`,
\* `class` or `struct`) does not carry that header's parameters.
C9_UnrelatedTokensDiscardPending ==
    \A k \in 1..Len(scanned_entities) :
        LET i == scanned_entities[k].token_index
            headers == { h \in Positions(tokens, TEMPLATE) :
                           h < i /\ RecognizedHeader(tokens, h)
                                 /\ HeaderEnd(tokens, h) < i }
        IN  \A h \in headers :
               (/\ HeaderEnd(tokens, h) + 1 < i
                /\ \A q \in (HeaderEnd(tokens, h) + 1)..(i - 1) :
                      tokens[q] \notin {TEMPLATE, CLASS, STRUCT})
               => ~HasHeaderParams(scanned_entities[k])

\* C10: visiting a `template` token whose header is not of the recognized
\* form adds one to the miss counter, clears the pending template
\* parameters, leaves both stacks, the entity list and the hit counter as
\* they were, and moves on to the next token; and an entity whose closest
\* `template` token before it is such a header carries no header
\* parameters.
C10_BadHeaderClearsPending ==
    /\ [][(InPass /\ Token = TEMPLATE /\ ~RecognizedHeader(tokens, idx)) =>
             /\ misses' = misses + 1
             /\ hits' = hits
             /\ current_template_params' = None
             /\ current_namespace' = current_namespace
             /\ class_scope_stack' = class_scope_stack
             /\ scanned_entities' = scanned_entities
             /\ idx' = idx + 1]_vars
    /\ [](\A k \in 1..Len(scanned_entities) :
             LET before == { t \in Positions(tokens, TEMPLATE) :
                               t < scanned_entities[k].token_index }
                 last == CHOOSE t \in before : \A u \in before : u <= t
             IN  (before # {} /\ ~RecognizedHeader(tokens, last))
                 => ~HasHeaderParams(scanned_entities[k]))

\* A malformed header has just been visited while the parameters of an
\* earlier, recognized header were still pending.
C10_Witness ==
    /\ idx > 2 /\ tokens[idx - 1] = TEMPLATE
    /\ ~RecognizedHeader(tokens, idx - 1)
    /\ tokens[1] = TEMPLATE /\ RecognizedHeader(tokens, 1)
    /\ \A q \in 1..(idx - 1) : ~IsClassKeyword(tokens[q])
    /\ hits = 1 /\ misses = 1
    /\ current_template_params = None
    /\ \E p \in idx..Len(tokens) : IsClassKeyword(tokens[p]) /\ HasWord(tokens, p + 1)

\* The first `{` or `;` after position i, or one past the end of the file.
HeadEnd(toks, i) ==
    LET ends == { q \in Positions(toks, "{") \cup Positions(toks, ";") : q > i }
    IN  IF ends = {} THEN Len(toks) + 1 ELSE Min(ends)

\* The base identifiers written in the base list of the declaration at
\* position i, in order: the words between `:` and the end of the head
\* that are not access specifiers.
WrittenBases(toks, i) ==
    LET ps == SortedSeq({ p \in (i + 3)..(HeadEnd(toks, i) - 1) :
                            IsWord(toks[p]) /\ toks[p] \notin AccessSpecifiers })
    IN  [k \in 1..Len(ps) |-> toks[ps[k]]]

\* C11: an entity declared with a base list `: [access] B1, [access] B2, ...`
\* has exactly B1, B2, ... as its base types, in order and without the
\* access specifiers; an entity declared without `:` has no base types.
C11_BaseTypesAreIdentifiers ==
    \A k \in 1..Len(scanned_entities) :
        LET i == scanned_entities[k].token_index
        IN  /\ At(tokens, i + 2) = ":"
                => scanned_entities[k].base_types = WrittenBases(tokens, i)
            /\ At(tokens, i + 2) \notin {":", "<"}
                => scanned_entities[k].base_types = <<>>

(***************************************************************************)
(* Import pass properties (SpecImports).                                   *)
(***************************************************************************)
ImportsDone == import_idx > Len(import_tokens)

\* The characters the specification allows in an include path.
SpecPathChars == Alphanums \cup {".", "/", "_"}

\* ra reads `#include <path>` or `#include "path"` with a path of the
\* specification's characters only.
DelimitedPath(ra) ==
    /\ Len(ra) >= 4
    /\ ra[1] = INCLUDE
    /\ \/ ra[2] = <<"<">> /\ ra[4] = <<">">>
       \/ ra[2] = <<"\"">> /\ ra[4] = <<"\"">>
    /\ Len(ra[3]) > 0
    /\ \A n \in 1..Len(ra[3]) : ra[3][n] \in SpecPathChars

\* C12: an `#include` followed by a delimited path of letters, digits, `.`,
\* `/`, `_` is a hit whose recorded raw path is the whole text between the
\* delimiters; an `#include` followed by anything else is a miss that
\* records no dependency.
C12_IncludeMatchesExactlyDelimitedPaths ==
    [][ VisitInclude =>
          LET ra == ReadAhead(import_tokens, import_idx)
          IN  IF DelimitedPath(ra)
              THEN /\ hits' = hits + 1
                   /\ misses' = misses
                   /\ \/ scanned_import_dependencies' = scanned_import_dependencies
                      \/ \E d \in {Text(ra[3]), "x/" \o Text(ra[3])} :
                            scanned_import_dependencies' =
                                Append(scanned_import_dependencies, d)
              ELSE /\ misses' = misses + 1
                   /\ hits' = hits
                   /\ scanned_import_dependencies' = scanned_import_dependencies
      ]_vars

\* The resolved strings of the matched includes among the first n tokens
\* that the ignore list does not hold, in the order of the includes.
ExpectedDependencies(toks, n, existing, ignored) ==
    LET ps == SortedSeq({ p \in 1..n :
                            /\ toks[p] = INCLUDE
                            /\ IncludeMatch(ReadAhead(toks, p)).ok })
        raw(k) == IncludeMatch(ReadAhead(toks, ps[k])).name
        resolved == [k \in 1..Len(ps) |->
                        IF ("x/" \o raw(k)) \in existing
                        THEN "x/" \o raw(k) ELSE raw(k)]
    IN  SelectSeq(resolved, LAMBDA d : d \notin ignored)

\* C13: the dependency list is the sequence, in encounter order, of the
\* (possibly resolved) strings of the matched includes whose resolved string
\* is not ignored; ignored includes are dropped, duplicates kept, nothing
\* else appended or removed.
C13_DependenciesAreUnignoredResolvedIncludes ==
    scanned_import_dependencies =
        ExpectedDependencies(import_tokens, import_idx - 1,
                             existing_paths, ignore_list)

\* A finished pass that kept a resolved duplicate and dropped an ignored
\* include.
C13_Witness ==
    /\ ImportsDone
    /\ hits = 3
    /\ scanned_import_dependencies = <<"x/a/b.h", "x/a/b.h">>
    /\ "c_1.h" \in ignore_list

(***************************************************************************)
(* Naming (create_unique_entity_name).                                     *)
(***************************************************************************)
\* path joined by `::` and followed by `::`, or nothing for an empty path.
NamespacePrefix(path) ==
    IF path = <<>> THEN "" ELSE Join(path, "::") \o "::"

\* `<` + parameter names joined by `,` + `>`, or nothing without parameters.
TemplateSuffix(params) ==
    IF params = <<>> THEN "" ELSE "<" \o Join(params, ",") \o ">"

\* C14: unique name = namespace path joined by `::`, `::`, entity name and
\* the template suffix, the prefix omitted for an empty path and the suffix
\* without template parameters; display name = entity name plus the same
\* suffix, without the namespace path.
C14_UniqueAndDisplayName ==
    [][ ClassMatched =>
          LET e == scanned_entities'[Len(scanned_entities')]
              path == current_namespace \o class_scope_stack
          IN  /\ e.unique_name = NamespacePrefix(path) \o e.entity_name
                                    \o TemplateSuffix(e.template_parameters)
              /\ e.display_name = e.entity_name
                                    \o TemplateSuffix(e.template_parameters)
      ]_vars

\* A templated class inside a namespace has been named.
C14_Witness ==
    \E k \in 1..Len(scanned_entities) :
        /\ scanned_entities[k].unique_name = "N::C<T,V>"
        /\ scanned_entities[k].display_name = "C<T,V>"

(***************************************************************************)
(* Scope tracking.                                                         *)
(***************************************************************************)
\* Positions of the `namespace <name> {` occurrences visited before pos
\* whose block is not closed by a `}` visited before pos.
OpenNamespaceBlocks(toks, pos) ==
    { p \in Positions(toks, NAMESPACE) :
        /\ p < pos
        /\ IsWord(At(toks, p + 1))
        /\ At(toks, p + 2) = "{"
        /\ BodyClose(toks, p + 2) >= pos }

\* C15: at every point of the pass every name on the namespace stack comes
\* from a `namespace <name> {` block that is open at that point, so a
\* `namespace` keyword that opens no block adds nothing to the stack.
C15_NamespaceStackHoldsOpenBlocks ==
    \A k \in 1..Len(current_namespace) :
        \E p \in OpenNamespaceBlocks(tokens, idx) :
            tokens[p + 1] = current_namespace[k]

\* Positions, in order, of the class/struct definitions visited before pos
\* whose body is not closed by a `}` visited before pos.
OpenClassBodies(toks, pos) ==
    SortedSeq({ p \in Positions(toks, CLASS) \cup Positions(toks, STRUCT) :
                  /\ p < pos
                  /\ IsWord(At(toks, p + 1))
                  /\ HasBody(toks, p)
                  /\ BodyClose(toks, BodyOpen(toks, p)) >= pos })

\* C16: at every point of the pass the class stack is the sequence of names
\* of the class/struct definitions whose body is open, so a block inside a
\* class that is not a class body leaves the class on the stack when it
\* closes.
C16_ClassStackIsOpenClassBodies ==
    LET ps == OpenClassBodies(tokens, idx)
    IN  class_scope_stack = [k \in 1..Len(ps) |-> tokens[ps[k] + 1]]

(***************************************************************************)
(* Flags and their dependence on the rest of the file.                     *)
(***************************************************************************)
\* The last token of the declaration at position i: the `}` closing its
\* body, or the `;` of a forward declaration (the last token of the file
\* when the declaration is cut off).
DeclarationEnd(toks, i) ==
    LET e == IF HasBody(toks, i) THEN BodyClose(toks, BodyOpen(toks, i))
             ELSE HeadEnd(toks, i)
    IN  IF e > Len(toks) THEN Len(toks) ELSE e

\* The entities of the file that ends with the declaration at position i.
EntitiesUpTo(toks, i) ==
    RunPass(SubSeq(toks, 1, DeclarationEnd(toks, i)), 1, StartState).scanned_entities

\* C17: an entity's is_abstract and has_virtual_methods are those it gets
\* in the file that stops at the end of its declaration, whatever follows;
\* a class whose body holds no `virtual` token has both flags false.
C17_FlagsDependOnOwnBodyOnly ==
    \A k \in 1..Len(scanned_entities) :
        LET e == scanned_entities[k]
            i == e.token_index
            alone == EntitiesUpTo(tokens, i)
        IN  /\ k <= Len(alone) =>
                  /\ e.is_abstract = alone[k].is_abstract
                  /\ e.has_virtual_methods = alone[k].has_virtual_methods
            /\ ( /\ HasBody(tokens, i)
                 /\ \A p \in BodyOpen(tokens, i)..DeclarationEnd(tokens, i) :
                        tokens[p] # VIRTUAL )
                  => ~e.is_abstract /\ ~e.has_virtual_methods

(***************************************************************************)
(* Runs over several files (SpecRun).                                      *)
(***************************************************************************)
\* The state of a pass over toks alone when it stands before position stop.
RECURSIVE RunUntil(_, _, _, _)
RunUntil(toks, i, stop, st) ==
    IF i >= stop THEN st ELSE RunUntil(toks, i + 1, stop, Visit(toks, i, st))

\* C18: a file's pass starts with both stacks and the pending template
\* parameters empty whatever the previous file left, so at every point its
\* scope state and the entities extracted so far are those of the pass over
\* that file alone.
C18_PassStartsEmpty ==
    LET alone == RunUntil(tokens, 1, idx, StartState)
    IN  /\ current_namespace = alone.current_namespace
        /\ class_scope_stack = alone.class_scope_stack
        /\ current_template_params = alone.current_template_params
        /\ scanned_entities = alone.scanned_entities

\* The pass over `struct D ;` is finished after a file that ended inside
\* namespace N and class C (the only file of a run with two hits).
C18_Witness ==
    /\ tokens = <<"struct", "D", ";">>
    /\ ~InPass
    /\ hits = 3 /\ misses = 0
    /\ pending_results = <<>>
    /\ Len(scanned_entities) = 1
    /\ scanned_entities[1].unique_name = "D"

(***************************************************************************)
(* Counters and frame of the entity pass.                                  *)
(***************************************************************************)
CountedKeywords == {TEMPLATE, CLASS, STRUCT, NAMESPACE}

Hit == hits' = hits + 1 /\ misses' = misses
Miss == hits' = hits /\ misses' = misses + 1

\* C19: every template, class, struct and namespace token adds one to
\* exactly one of the two counters and no other token changes a counter;
\* an entity is appended exactly at the hits of class/struct tokens; so
\* hits + misses is the number of such tokens visited.
C19_EveryKeywordCountedOnce ==
    /\ [][ /\ Token \in CountedKeywords => Hit \/ Miss
           /\ Token \notin CountedKeywords => hits' = hits /\ misses' = misses
           /\ Len(scanned_entities') =
                 Len(scanned_entities)
                   + (IF IsClassKeyword(Token) /\ Hit THEN 1 ELSE 0)
         ]_vars
    /\ [](hits + misses =
            Cardinality({ p \in 1..(idx - 1) : tokens[p] \in CountedKeywords }))

\* A finished pass with hits of both kinds and a miss.
C19_Witness ==
    /\ Done
    /\ misses >= 1
    /\ Len(scanned_entities) >= 1
    /\ hits > Len(scanned_entities)

\* The step pushes name on the namespace stack.
PushesNamespace(name) ==
    /\ current_namespace' = Append(current_namespace, name)
    /\ class_scope_stack' = class_scope_stack

\* The step pushes name on the class stack.
PushesClass(name) ==
    /\ class_scope_stack' = Append(class_scope_stack, name)
    /\ current_namespace' = current_namespace

\* The step pops one name from one of the stacks.
PopsOne ==
    \/ /\ class_scope_stack # <<>>
       /\ class_scope_stack' = Pop(class_scope_stack)
       /\ current_namespace' = current_namespace
    \/ /\ current_namespace # <<>>
       /\ current_namespace' = Pop(current_namespace)
       /\ class_scope_stack' = class_scope_stack

\* C20: a step that changes a scope stack is a successful namespace match
\* (push on the namespace stack), a successful class/struct match followed
\* first by `{` (push on the class stack) or a `}` token (pop); every other
\* token and every failed match leaves both stacks as they are.
C20_OnlyThreeEventsChangeScope ==
    [][ <<current_namespace, class_scope_stack>>' # <<current_namespace, class_scope_stack>>
          => \/ Token = NAMESPACE /\ Hit /\ PushesNamespace(tokens[idx + 1])
             \/ /\ IsClassKeyword(Token) /\ Hit
                /\ HasBody(tokens, idx)
                /\ PushesClass(tokens[idx + 1])
             \/ Token = CLOSE_SCOPE /\ PopsOne
      ]_vars

\* A failed namespace match inside an open namespace has been passed.
C20_Witness ==
    /\ current_namespace = <<"N">>
    /\ misses = 1
    /\ idx > 4
    /\ SubSeq(tokens, 1, 4) = <<"namespace", "N", "{", "namespace">>

====
